---- MODULE Spec2Model ----
(***************************************************************************)
(* Render model of the two view components of the front-end:               *)
(*   Logo              frontend/lib/components/NavBar/components/Logo.tsx  *)
(*   SelectedChatPage  frontend/app/chat/[chatId]/page.tsx                 *)
(*                                                                         *)
(* A render tree is the sequence of the JSX elements a component returns,  *)
(* in document order (pre-order).  Each element is a record                *)
(*   type    the element's tag or component name                           *)
(*   parent  the index of the enclosing element, 0 for the root            *)
(*   props   the attributes written on the element (<<>> when none)        *)
(*   text    the literal text child of the element ("" when none)          *)
(*                                                                         *)
(* The hosting framework is the environment: it binds the dynamic route    *)
(* segment chatId and invokes the components, any number of times and in   *)
(* any order.  Every value a call returns is kept in `rendered`.           *)
(***************************************************************************)
EXTENDS Integers, Sequences, FiniteSets, TLC

VARIABLES
    chatId,     \* the route parameter bound by the router, NoChat off the chat route
    rendered    \* the calls made so far: [component, chatId, tree], oldest first

vars == <<chatId, rendered>>

\* Number of component invocations explored.
MaxRenders == 4

\* Values the router may bind to the dynamic segment [chatId].
ChatIds == {"chat-a", "chat-b", "chat-c"}

\* The route is not a chat route: no chatId is bound.
NoChat == "none"

\* An element that is given no attributes.
NoProps == <<>>

Element(type, parent, props, text) ==
    [type |-> type, parent |-> parent, props |-> props, text |-> text]

----------------------------------------------------------------------------
(* Logo.tsx *)

\* A link whose destination is not the root path.
Link_WrongHref ==
    Element("Link", 0, [href |-> "/chat", className |-> "flex items-center gap-4"], "")

\* A link whose destination changes once something has been rendered.
Link_Stateful ==
    Element("Link", 0,
            [href |-> IF rendered = <<>> THEN "/" ELSE "/chat",
             className |-> "flex items-center gap-4"], "")

\* <Link href={"/"} className="flex items-center gap-4">
Link ==
    Element("Link", 0, [href |-> "/", className |-> "flex items-center gap-4"], "")

\* An image that is not square.
Image_WrongSize ==
    Element("Image", 1,
            [className |-> "rounded-full", src |-> "/logo.png", alt |-> "Max Smart",
             width |-> 48, height |-> 84], "")

\* An image whose fallback text is not the brand label.
Image_WrongAlt ==
    Element("Image", 1,
            [className |-> "rounded-full", src |-> "/logo.png", alt |-> "Quivr Logo",
             width |-> 48, height |-> 48], "")

\* <Image className="rounded-full" src={"/logo.png"} alt="Max Smart" width={48} height={48} />
Image ==
    Element("Image", 1,
            [className |-> "rounded-full", src |-> "/logo.png", alt |-> "Max Smart",
             width |-> 48, height |-> 48], "")

\* A label with another text.
h1_WrongText ==
    Element("h1", 1, [className |-> "font-bold"], "Quivr")

\* <h1 className="font-bold">Max Smart</h1>
h1 ==
    Element("h1", 1, [className |-> "font-bold"], "Max Smart")

\* The value returned by Logo().
Logo == <<Link, Image, h1>>

----------------------------------------------------------------------------
(* page.tsx *)

\* <main className="flex flex-col w-full pt-10" data-testid="chat-page">
main ==
    Element("main", 0,
            ("className" :> "flex flex-col w-full pt-10") @@ ("data-testid" :> "chat-page"),
            "")

\* <section className="flex flex-col flex-1 items-center w-full h-full min-h-[70vh]">
section ==
    Element("section", 1,
            [className |-> "flex flex-col flex-1 items-center w-full h-full min-h-[70vh]"],
            "")

\* A heading with another title.
PageHeading_WrongTitle ==
    Element("PageHeading", 2,
            [title |-> "Chat with your brain", subtitle |-> "Talk to your AI about your data"],
            "")

\* A heading that shows the route parameter.
PageHeading_ReadsChatId ==
    Element("PageHeading", 2,
            [title |-> "Chat with Max Smart", subtitle |-> chatId], "")

\* <PageHeading title="Chat with Max Smart" subtitle="Talk to your AI about your data" />
PageHeading ==
    Element("PageHeading", 2,
            [title |-> "Chat with Max Smart", subtitle |-> "Talk to your AI about your data"],
            "")

\* <ChatProvider>
ChatProvider == Element("ChatProvider", 2, NoProps, "")

\* <div className="relative w-full flex flex-col flex-1 items-center">
outerDiv ==
    Element("div", 4, [className |-> "relative w-full flex flex-col flex-1 items-center"], "")

\* <div className="flex-1 w-full flex flex-col items-center">
innerDiv ==
    Element("div", 5, [className |-> "flex-1 w-full flex flex-col items-center"], "")

\* <ChatMessages />
ChatMessages == Element("ChatMessages", 6, NoProps, "")

\* An input that is handed the route parameter.
ChatInput_GetsChatId == Element("ChatInput", 5, [chatId |-> chatId], "")

\* <ChatInput />
ChatInput == Element("ChatInput", 5, NoProps, "")

\* The input region written above the message list.
SelectedChatPage_InputFirst ==
    <<main, section, PageHeading, ChatProvider, outerDiv,
      ChatInput, Element("div", 5, innerDiv.props, ""), Element("ChatMessages", 7, NoProps, "")>>

\* The heading written inside the provider.
SelectedChatPage_HeadingInside ==
    <<main, section, Element("ChatProvider", 2, NoProps, ""),
      Element("PageHeading", 3, PageHeading.props, ""),
      Element("div", 3, outerDiv.props, ""), Element("div", 5, innerDiv.props, ""),
      Element("ChatMessages", 6, NoProps, ""), Element("ChatInput", 5, NoProps, "")>>

\* The value returned by SelectedChatPage().
SelectedChatPage ==
    <<main, section, PageHeading, ChatProvider, outerDiv, innerDiv, ChatMessages, ChatInput>>

----------------------------------------------------------------------------
(* The hosting framework *)

Init ==
    /\ chatId = NoChat
    /\ rendered = <<>>

\* The router binds the dynamic segment (or leaves the chat route).
Navigate(id) ==
    /\ id # chatId
    /\ chatId' = id
    /\ UNCHANGED rendered

\* The framework calls Logo().
RenderLogo ==
    /\ Len(rendered) < MaxRenders
    /\ rendered' = Append(rendered, [component |-> "Logo", chatId |-> chatId, tree |-> Logo])
    /\ UNCHANGED chatId

\* The framework calls SelectedChatPage() on the route chat/[chatId].
RenderSelectedChatPage ==
    /\ chatId # NoChat
    /\ Len(rendered) < MaxRenders
    /\ rendered' = Append(rendered,
                          [component |-> "SelectedChatPage", chatId |-> chatId,
                           tree |-> SelectedChatPage])
    /\ UNCHANGED chatId

Next ==
    \/ \E id \in ChatIds \cup {NoChat} : Navigate(id)
    \/ RenderLogo
    \/ RenderSelectedChatPage

Spec == Init /\ [][Next]_vars

----------------------------------------------------------------------------
(* Vocabulary of the properties *)

\* The positions of the elements of a given type, in document order.
Positions(tree, type) == {i \in DOMAIN tree : tree[i].type = type}

\* Element i lies inside element j (j is a proper ancestor of i).
RECURSIVE IsInside(_, _, _)
IsInside(tree, i, j) ==
    IF tree[i].parent = 0 THEN FALSE
    ELSE tree[i].parent = j \/ IsInside(tree, tree[i].parent, j)

\* The calls of a component made so far, and the trees they returned.
Calls(component) == {n \in DOMAIN rendered : rendered[n].component = component}
TreesOf(component) == {rendered[n].tree : n \in Calls(component)}

\* The tree has exactly one element of the type.
HasOne(tree, type) == Cardinality(Positions(tree, type)) = 1

\* The position of the only element of the type.
The(tree, type) == CHOOSE i \in Positions(tree, type) : TRUE

----------------------------------------------------------------------------
(* Properties *)

\* C1: every call of Logo() returns a tree with exactly one link element; the
\* link is the root of the tree and its href is the root path "/".
C1_LogoIsOneRootLinkToHome ==
    \A t \in TreesOf("Logo") :
        /\ HasOne(t, "Link")
        /\ {i \in DOMAIN t : t[i].parent = 0} = {The(t, "Link")}
        /\ The(t, "Link") = 1
        /\ t[The(t, "Link")].props.href = "/"

\* Logo has been called and returned a tree rooted at a link.
C1_Witness ==
    \E n \in Calls("Logo") : rendered[n].tree[1].type = "Link"

\* C2: every call of SelectedChatPage() returns a tree with exactly one
\* ChatProvider, one ChatMessages and one ChatInput; ChatMessages comes before
\* ChatInput in document order and both lie inside the ChatProvider.
C2_MessagesBeforeInputInOneProvider ==
    \A t \in TreesOf("SelectedChatPage") :
        /\ HasOne(t, "ChatProvider")
        /\ HasOne(t, "ChatMessages")
        /\ HasOne(t, "ChatInput")
        /\ The(t, "ChatMessages") < The(t, "ChatInput")
        /\ IsInside(t, The(t, "ChatMessages"), The(t, "ChatProvider"))
        /\ IsInside(t, The(t, "ChatInput"), The(t, "ChatProvider"))

\* The page has been called and its tree holds a message list and an input.
C2_Witness ==
    \E n \in Calls("SelectedChatPage") :
        /\ Positions(rendered[n].tree, "ChatMessages") # {}
        /\ Positions(rendered[n].tree, "ChatInput") # {}

\* C3: every call of SelectedChatPage() returns a tree with exactly one
\* PageHeading, whose title is "Chat with Max Smart" and whose subtitle is
\* "Talk to your AI about your data".
C3_OneHeadingWithFixedTexts ==
    \A t \in TreesOf("SelectedChatPage") :
        /\ HasOne(t, "PageHeading")
        /\ t[The(t, "PageHeading")].props.title = "Chat with Max Smart"
        /\ t[The(t, "PageHeading")].props.subtitle = "Talk to your AI about your data"

\* The page has been called and its tree holds a heading.
C3_Witness ==
    \E n \in Calls("SelectedChatPage") : Positions(rendered[n].tree, "PageHeading") # {}

\* C4: for both components, any two calls, in any order and interleaved with
\* calls of the other component, return identical trees: the n-th call returns
\* what the first call returned.
C4_CallsAreRepeatable ==
    \A m, n \in DOMAIN rendered :
        rendered[m].component = rendered[n].component
            => rendered[m].tree = rendered[n].tree

\* Logo, the page, Logo again and the page again have been called, in that order.
C4_Witness ==
    /\ Len(rendered) >= 4
    /\ rendered[1].component = "Logo"
    /\ rendered[2].component = "SelectedChatPage"
    /\ rendered[3].component = "Logo"
    /\ rendered[4].component = "SelectedChatPage"

\* C5: the tree SelectedChatPage() returns does not depend on the route
\* parameter chatId: calls made under two different values of chatId return
\* identical trees.
C5_PageIgnoresChatId ==
    \A m, n \in Calls("SelectedChatPage") :
        rendered[m].chatId # rendered[n].chatId
            => rendered[m].tree = rendered[n].tree

\* The page has been called under every value of chatId.
C5_Witness ==
    \A id \in ChatIds : \E n \in Calls("SelectedChatPage") : rendered[n].chatId = id

\* C6: the link Logo() returns contains exactly one image element, whose width
\* is 48 and whose height is 48.
C6_OneSquareImage ==
    \A t \in TreesOf("Logo") :
        /\ HasOne(t, "Image")
        /\ HasOne(t, "Link")
        /\ IsInside(t, The(t, "Image"), The(t, "Link"))
        /\ t[The(t, "Image")].props.width = 48
        /\ t[The(t, "Image")].props.height = 48

\* Logo has been called and its tree holds an image.
C6_Witness ==
    \E n \in Calls("Logo") : Positions(rendered[n].tree, "Image") # {}

\* C7: the link Logo() returns contains exactly one text label element, whose
\* text is the literal string "Max Smart".
C7_OneLabelMaxSmart ==
    \A t \in TreesOf("Logo") :
        /\ {i \in DOMAIN t : t[i].text # ""} = Positions(t, "h1")
        /\ HasOne(t, "h1")
        /\ HasOne(t, "Link")
        /\ IsInside(t, The(t, "h1"), The(t, "Link"))
        /\ t[The(t, "h1")].text = "Max Smart"

\* Logo has been called and its tree holds an element with a text.
C7_Witness ==
    \E n \in Calls("Logo") : \E i \in DOMAIN rendered[n].tree : rendered[n].tree[i].text # ""

\* C8: in the tree SelectedChatPage() returns, ChatMessages and ChatInput each
\* carry an empty set of props: the page passes no value to either child.
C8_ChildrenGetNoProps ==
    \A t \in TreesOf("SelectedChatPage") :
        \A i \in Positions(t, "ChatMessages") \cup Positions(t, "ChatInput") :
            DOMAIN t[i].props = {}

\* The page has been called under a bound chatId and rendered both children.
C8_Witness ==
    \E n \in Calls("SelectedChatPage") :
        /\ rendered[n].chatId \in ChatIds
        /\ Positions(rendered[n].tree, "ChatMessages") # {}
        /\ Positions(rendered[n].tree, "ChatInput") # {}

\* C9: in the tree SelectedChatPage() returns, PageHeading comes before
\* ChatProvider in document order and does not lie inside it: the two are
\* siblings under the same section.
C9_HeadingOutsideProvider ==
    \A t \in TreesOf("SelectedChatPage") :
        /\ HasOne(t, "PageHeading")
        /\ HasOne(t, "ChatProvider")
        /\ The(t, "PageHeading") < The(t, "ChatProvider")
        /\ ~IsInside(t, The(t, "PageHeading"), The(t, "ChatProvider"))
        /\ t[The(t, "PageHeading")].parent = t[The(t, "ChatProvider")].parent
        /\ t[The(t, "PageHeading")].parent \in Positions(t, "section")

\* The page has been called and its tree holds a heading and a provider.
C9_Witness ==
    \E n \in Calls("SelectedChatPage") :
        /\ Positions(rendered[n].tree, "PageHeading") # {}
        /\ Positions(rendered[n].tree, "ChatProvider") # {}

\* C10: in the tree Logo() returns, the image and the text label are both
\* children of the link, the image comes before the label, and the image's
\* alt text equals the label's text, "Max Smart".
C10_ImageAndLabelInLink ==
    \A t \in TreesOf("Logo") :
        /\ HasOne(t, "Link")
        /\ HasOne(t, "Image")
        /\ HasOne(t, "h1")
        /\ t[The(t, "Image")].parent = The(t, "Link")
        /\ t[The(t, "h1")].parent = The(t, "Link")
        /\ The(t, "Image") < The(t, "h1")
        /\ t[The(t, "Image")].props.alt = t[The(t, "h1")].text
        /\ t[The(t, "h1")].text = "Max Smart"

\* Logo has been called and its tree holds an image and a label.
C10_Witness ==
    \E n \in Calls("Logo") :
        /\ Positions(rendered[n].tree, "Image") # {}
        /\ Positions(rendered[n].tree, "h1") # {}

====
